---- MODULE Spec2Model ----
(***************************************************************************)
(* The operation-ingestion actor of core/crates/sync/src/ingest.rs: the    *)
(* tick state machine, receive_crdt_operation, compare_message, apply_op   *)
(* and the audit-log rows they read and write.                             *)
(***************************************************************************)
EXTENDS Integers, Sequences, FiniteSets, TLC

(***************************************************************************)
(* Bounds of the model.                                                    *)
(***************************************************************************)
\* NTP64 is a u64 and the store column an i64; the model keeps the two's
\* complement conversion but scales the width from 64 bits to TsBits bits.
TsBits == 3
\* Operations received (over all batches) in one behaviour.
MaxOps == 3
\* Longest batch the owner hands over in one Messages event.
MaxBatchLen == 2
\* Batches with has_more = true in one drain sequence.
MaxMore == 1
\* Capacity of the bounded request channel (actor -> owner).
ReqCap == 1
\* Store calls (projection, audit-log append) that fail in one behaviour.
MaxFailures == 1

Half == 2 ^ (TsBits - 1)
Width == 2 * Half

(***************************************************************************)
(* Operations (sd_sync::CRDTOperation).                                    *)
(***************************************************************************)
Instances == {"X", "Y"}

\* Three timestamps below the sign bit and two with the sign bit set.
Timestamps == {1, 2, 3, Half + 1, Half + 2}

\* CRDTOperationType::Shared(SharedOperation { record_id, model, data })
SharedTyp(data) ==
    [tag |-> "Shared", model |-> "Object", record_id |-> "r1", data |-> data]

\* CRDTOperationType::Relation(RelationOperation { relation_item, relation_group, relation, data })
RelationTyp(group, data) ==
    [tag |-> "Relation", relation |-> "TagOnObject", relation_item |-> "i1",
     relation_group |-> group, data |-> data]

\* CRDTOperation { instance, timestamp, id, typ }: an id names one operation
\* (an instance stamps one operation per timestamp).
Op(i, t, y) == [id |-> <<i, t>>, instance |-> i, timestamp |-> t, typ |-> y]

\* An update writes a value that names its author and timestamp.
Create(i, t) == Op(i, t, SharedTyp([variant |-> "Create"]))
Update(i, t) == Op(i, t, SharedTyp([variant |-> "Update", field |-> "name", value |-> <<i, t>>]))
Delete(i, t) == Op(i, t, SharedTyp([variant |-> "Delete"]))
Relate(i, t, g) == Op(i, t, RelationTyp(g, [variant |-> "Create"]))

\* An update of a second record of the same model.
UpdateOther(i, t) ==
    Op(i, t, [tag |-> "Shared", model |-> "Object", record_id |-> "r2",
              data |-> [variant |-> "Update", field |-> "name", value |-> <<i, t>>]])

\* A shared operation on a model the applier has no handler for.
Unrecognised(i, t) ==
    Op(i, t, [tag |-> "Shared", model |-> "Unknown", record_id |-> "r1",
              data |-> [variant |-> "Create"]])

\* The sets of operations the remote instances may have authored in one
\* behaviour (an instance stamps one operation per timestamp): every kind of
\* change to one record; two origins racing on one target; timestamps on
\* both sides of the sign bit; relation changes in two groups; a payload the
\* applier does not recognise, beside updates of two records.
Worlds ==
    { { Create("X", 1), Update("X", 2), Delete("X", 3) },
      { Update("X", 1), Update("X", 2), Update("Y", 2) },
      { Update("X", 1), Update("X", Half + 1), Update("X", Half + 2) },
      { Relate("X", 1, "g1"), Relate("X", 2, "g2"), Relate("Y", 2, "g1") },
      { Unrecognised("X", 1), Update("X", 2), UpdateOther("X", 3) } }

Operations == UNION Worlds

\* SharedOperationData::kind / RelationOperationData::kind
kind(data) ==
    CASE data.variant = "Create" -> "c"
      [] data.variant = "Update" -> "u:" \o data.field
      [] data.variant = "Delete" -> "d"

\* The greatest element of a non-empty set of numbers.
Greatest(S) == CHOOSE x \in S : \A y \in S : y <= x

\* The hybrid logical clock refuses a timestamp that is ahead of the physical
\* clock by more than its delta; the timestamps of the upper half stand for
\* such times.
TooFarAhead(t) == t >= Half

\* `self.clock.update_with_timestamp(..).ok()`: the clock's time after it; a
\* refused timestamp is an Err, which the caller discards.
update_with_timestamp(time, t) ==
    IF TooFarAhead(t) THEN time ELSE Greatest({time, t})

\* `op.timestamp.as_u64() as i64`: the two's complement reading of the value.
AsI64(t) == IF t >= Half THEN t - Width ELSE t

(***************************************************************************)
(* State.                                                                  *)
(***************************************************************************)
VARIABLES
    authored,    \* the operations that exist on the remote instances
    state,       \* Actor.state: the State variant
    event,       \* the MessagesEvent held by State::Ingesting
    pc,          \* the await point the actor's task stands at
    timestamps,  \* SharedState.timestamps: instance -> NTP64
    pending,     \* locals (op_instance, timestamp) of receive_crdt_operation
    db,          \* SharedState.db: the audit-log tables and the domain rows
    req,         \* requests in the bounded channel req_tx -> req_rx
    failures,    \* store calls that have failed so far
    n_received,  \* calls of receive_crdt_operation so far
    n_fetch,     \* Request::Messages sent since the last Notification
    n_more,      \* has_more batches exhausted since the last Notification
    n_finished,  \* Request::FinishedIngesting sent since the last Notification
    projected,   \* the operations whose projection has run
    last,        \* the latest receive_crdt_operation: its operation, the watermarks before it, what it did
    peer_db,     \* the store of a second replica
    orders,      \* the delivery orders left to the two replicas
    open,        \* whether the event source (event_tx -> event_rx) is open
    clock,       \* SharedState.clock: the latest time of the hybrid logical clock
    high,        \* instance -> the greatest timestamp of the operations processed
    n_ingested,  \* Request::Ingested sent so far
    seen,        \* the watermark table as a concurrent reader last read it
    outstanding, \* Request::Messages sent less the batch events consumed
    inbox,       \* event_rx: the events sent by the owner and not yet dequeued
    discarded    \* the kinds of the events a wait has dequeued and not matched

vars == << authored, state, event, pc, timestamps, pending, db, req, failures,
           n_received, n_fetch, n_more, n_finished, projected, last, peer_db,
           orders, open, clock, high, n_ingested, seen, outstanding,
           inbox, discarded >>

NoEvent == [messages |-> << >>, has_more |-> FALSE]
NoRecord == [exists |-> FALSE, name |-> << >>]
RecordKey(op) == <<op.typ.model, op.typ.record_id>>
RelationKey(op) == <<op.typ.relation, op.typ.relation_item, op.typ.relation_group>>
RecordKeys == { RecordKey(o) : o \in { p \in Operations : p.typ.tag = "Shared" } }
RelationKeys == { RelationKey(o) : o \in { p \in Operations : p.typ.tag = "Relation" } }

\* A store with no audit-log row and no domain row.
EmptyDb ==
    [ shared_operation |-> {},
      relation_operation |-> {},
      records |-> [k \in RecordKeys |-> NoRecord],
      relations |-> [k \in RelationKeys |-> FALSE] ]

(***************************************************************************)
(* The watermark table (a HashMap behind a RwLock).                        *)
(***************************************************************************)
\* HashMap::insert
Insert(map, k, v) == [x \in DOMAIN map \cup {k} |-> IF x = k THEN v ELSE map[x]]

\* OrInsert that overwrites an entry that is there.
OrInsertOverwrite(map, k, v) == Insert(map, k, v)

\* `*clocks.entry(op.instance).or_insert_with(|| op.timestamp)`: the table after it
OrInsert(map, k, v) == IF k \in DOMAIN map THEN map ELSE Insert(map, k, v)

\* MergeTimestamp without the comparison: the operation's timestamp always wins.
MergeTimestampUnconditional(timestamp, op_timestamp) == op_timestamp

\* MergeTimestamp with the comparison reversed: the smaller timestamp is kept.
MergeTimestampSmaller(timestamp, op_timestamp) ==
    IF timestamp > op_timestamp THEN op_timestamp ELSE timestamp

\* `if timestamp < op.timestamp { timestamp = op.timestamp }` (NTP64 order)
MergeTimestamp(timestamp, op_timestamp) ==
    IF timestamp < op_timestamp THEN op_timestamp ELSE timestamp

\* Snapshot that collects nothing.
SnapshotEmpty(map) == {}

\* the snapshot a Request::Messages carries
Snapshot(map) == { <<k, map[k]>> : k \in DOMAIN map }

(***************************************************************************)
(* The audit log and compare_message.                                      *)
(***************************************************************************)
shared_op_db(op) ==
    [ id |-> op.id, timestamp |-> AsI64(op.timestamp), instance |-> op.instance,
      kind |-> kind(op.typ.data), data |-> op.typ.data,
      model |-> op.typ.model, record_id |-> op.typ.record_id ]

relation_op_db(op) ==
    [ id |-> op.id, timestamp |-> AsI64(op.timestamp), instance |-> op.instance,
      kind |-> kind(op.typ.data), data |-> op.typ.data,
      relation |-> op.typ.relation, item_id |-> op.typ.relation_item,
      group_id |-> op.typ.relation_group ]

\* SharedMatches without the filter on the timestamp.
SharedMatchesAny(d, op) ==
    { r \in d.shared_operation :
        /\ r.model = op.typ.model
        /\ r.record_id = op.typ.record_id
        /\ r.kind = kind(op.typ.data) }

\* The rows the shared_operation query of compare_message selects.
SharedMatches(d, op) ==
    { r \in d.shared_operation :
        /\ r.timestamp >= AsI64(op.timestamp)
        /\ r.model = op.typ.model
        /\ r.record_id = op.typ.record_id
        /\ r.kind = kind(op.typ.data) }

\* RelationMatches with a further filter on the group.
RelationMatchesGroup(d, op) ==
    { r \in d.relation_operation :
        /\ r.timestamp >= AsI64(op.timestamp)
        /\ r.relation = op.typ.relation
        /\ r.item_id = op.typ.relation_item
        /\ r.group_id = op.typ.relation_group
        /\ r.kind = kind(op.typ.data) }

\* The rows the relation_operation query of compare_message selects.
RelationMatches(d, op) ==
    { r \in d.relation_operation :
        /\ r.timestamp >= AsI64(op.timestamp)
        /\ r.relation = op.typ.relation
        /\ r.item_id = op.typ.relation_item
        /\ r.kind = kind(op.typ.data) }

\* FindFirst with SortOrder::Asc in place of SortOrder::Desc.
FindFirstAsc(rows) == { r \in rows : \A q \in rows : q.timestamp >= r.timestamp }

\* find_first(..).order_by(timestamp::order(SortOrder::Desc)): the rows that
\* may come first, none when nothing matches.
FindFirst(rows) == { r \in rows : \A q \in rows : q.timestamp <= r.timestamp }

\* `newer_op.map(|newer_op| newer_op.timestamp)`, an Option as a set
old_timestamp(d, op) ==
    { r.timestamp : r \in FindFirst(IF op.typ.tag = "Shared"
                                    THEN SharedMatches(d, op)
                                    ELSE RelationMatches(d, op)) }

\* compare_message that reports stale whenever the query finds a row.
compare_message_found(d, op) == old_timestamp(d, op) # {}

\* `old_timestamp.map(|old| old != op.timestamp.as_u64() as i64).unwrap_or_default()`
compare_message(d, op) ==
    \E old \in old_timestamp(d, op) : old # AsI64(op.timestamp)

(***************************************************************************)
(* apply_op: the projection onto the domain store, the audit-log append.   *)
(***************************************************************************)
\* ModelSyncData::exec on a shared operation: the row of (model, record_id) after it
ProjectShared(row, data) ==
    CASE data.variant = "Create" -> IF row.exists THEN row ELSE [exists |-> TRUE, name |-> << >>]
      [] data.variant = "Update" -> [exists |-> TRUE, name |-> data.value]
      [] data.variant = "Delete" -> NoRecord

\* ModelSyncData::exec on a relation operation: whether the edge exists after it
ProjectRelation(exists, data) ==
    CASE data.variant = "Create" -> TRUE
      [] data.variant = "Update" -> TRUE
      [] data.variant = "Delete" -> FALSE

\* ModelSyncData::from_op: the handler of a payload, none when the model or
\* relation is not one the applier knows (an Option, as a set).
from_op(typ) ==
    IF typ.tag = "Shared"
    THEN (IF typ.model = "Object" THEN {typ} ELSE {})
    ELSE (IF typ.relation = "TagOnObject" THEN {typ} ELSE {})

\* `ModelSyncData::from_op(op.typ.clone()).unwrap().exec(&self.db)`: the store after it
Exec(d, op) ==
    IF op.typ.tag = "Shared"
    THEN [d EXCEPT !.records[RecordKey(op)] = ProjectShared(@, op.typ.data)]
    ELSE [d EXCEPT !.relations[RelationKey(op)] = ProjectRelation(@, op.typ.data)]

\* The audit-log tables are keyed by the operation id: a second row with the
\* same id is refused by the store.
Recorded(d, op) ==
    IF op.typ.tag = "Shared"
    THEN \E r \in d.shared_operation : r.id = op.id
    ELSE \E r \in d.relation_operation : r.id = op.id

\* write_crdt_op_to_db, when the store accepts the row: the store after it
write_crdt_op_to_db(d, op) ==
    IF op.typ.tag = "Shared"
    THEN [d EXCEPT !.shared_operation = @ \cup { shared_op_db(op) }]
    ELSE [d EXCEPT !.relation_operation = @ \cup { relation_op_db(op) }]

\* Applied that ignores the two `?`.
AppliedAlways(d, op, outcome) == TRUE

\* Whether apply_op gets past both `?`: the projection and the append succeed.
Applied(d, op, outcome) == outcome = "ok" /\ ~Recorded(d, op)

\* apply_op with the append ahead of the projection: the row is written, then
\* the projection runs.
apply_op_append_first(d, op, outcome) ==
    IF outcome = "exec_err" THEN write_crdt_op_to_db(d, op)
    ELSE IF Applied(d, op, outcome) THEN write_crdt_op_to_db(Exec(d, op), op)
    ELSE Exec(d, op)

\* The store after apply_op, given what the store calls do ("ok": no store
\* error; "exec_err": the projection fails; "write_err": the append fails).
apply_op(d, op, outcome) ==
    IF outcome = "exec_err" THEN d
    ELSE IF Applied(d, op, outcome) THEN write_crdt_op_to_db(Exec(d, op), op)
    ELSE Exec(d, op)

\* Applies without the test of is_old: every operation is applied.
AppliesAlways(is_old) == TRUE

\* `if !is_old { self.apply_op(op) }`
Applies(is_old) == ~is_old

\* The store after receive_crdt_operation: compare_message, then apply_op
\* unless the operation is old.
Ingest(d, op, outcome) ==
    IF Applies(compare_message(d, op)) THEN apply_op(d, op, outcome) ELSE d

\* The domain rows of a store.
Domain(d) == << d.records, d.relations >>

(***************************************************************************)
(* The actor.                                                              *)
(***************************************************************************)
\* DefaultState with #[default] on the second variant.
DefaultStateRetrieving == "RetrievingMessages"

\* `#[derive(Default)] enum State`: the state a spawned actor starts in
DefaultState == "WaitingForNotification"

\* The first await of tick in a state.
Await(s) ==
    CASE s = "WaitingForNotification" -> "wait_notification"
      [] s = "RetrievingMessages" -> "send_messages"
      [] s = "Ingesting" -> "ingesting"

Init ==
    /\ authored \in Worlds
    /\ state = DefaultState
    /\ event = NoEvent
    /\ pc = Await(state)
    /\ timestamps = << >>
    /\ pending = << >>
    /\ db = EmptyDb
    /\ req = << >>
    /\ failures = 0
    /\ n_received = 0
    /\ n_fetch = 0
    /\ n_more = 0
    /\ n_finished = 0
    /\ outstanding = 0
    /\ projected = {}
    /\ last = [op |-> << >>, before |-> {}, is_old |-> FALSE, exec |-> FALSE,
               written |-> FALSE, outcome |-> "ok"]
    /\ peer_db = EmptyDb
    /\ orders = << << >>, << >> >>
    /\ open = TRUE
    /\ clock = 0
    /\ high = << >>
    /\ n_ingested = 0
    /\ seen = << >>
    /\ inbox = << >>
    /\ discarded = {}

counts == << n_fetch, n_more, n_finished, outstanding >>
books == << authored, failures, n_received, projected, last, peer_db, orders,
           clock, high, seen, inbox, discarded >>

\* The batches the owner may hand over.
Batches ==
    { [messages |-> m, has_more |-> h] :
        m \in UNION { [1..n -> authored] : n \in 0..MaxBatchLen }, h \in BOOLEAN }

\* tick, State::WaitingForNotification: wait!(event_rx, Event::Notification)
Notification ==
    /\ pc = "wait_notification"
    /\ open
    /\ state' = "RetrievingMessages"
    /\ pc' = Await(state')
    /\ n_fetch' = 0
    /\ n_more' = 0
    /\ n_finished' = 0
    /\ UNCHANGED << event, timestamps, pending, db, req, books, open, n_ingested,
                    outstanding >>

\* wait! dequeues an event that does not match its pattern and loops.
DiscardEvent ==
    /\ pc \in {"wait_notification", "wait_messages"}
    /\ open
    /\ UNCHANGED vars

\* CanSend of a channel that never fills.
CanSendAlways(q) == TRUE

\* `req_tx.send(..).await` on the bounded mpsc channel: the send completes
\* only when the channel has room, the actor is suspended until then.
CanSend(q) == Len(q) < ReqCap

\* tick, State::RetrievingMessages: io.send(Request::Messages { timestamps })
SendMessages ==
    /\ pc = "send_messages"
    /\ CanSend(req)
    /\ req' = Append(req, [type |-> "Messages", timestamps |-> Snapshot(timestamps)])
    /\ pc' = "wait_messages"
    /\ n_fetch' = n_fetch + 1
    /\ outstanding' = outstanding + 1
    /\ UNCHANGED << state, event, timestamps, pending, db, n_more, n_finished,
                    books, open, n_ingested >>

\* tick, State::RetrievingMessages: wait!(event_rx, Event::Messages(event) => event)
Messages(ev) ==
    /\ pc = "wait_messages"
    /\ open
    /\ n_received + Len(ev.messages) <= MaxOps
    /\ ev.has_more => n_more < MaxMore
    /\ state' = "Ingesting"
    /\ event' = ev
    /\ pc' = Await(state')
    /\ outstanding' = outstanding - 1
    /\ UNCHANGED << timestamps, pending, db, req, n_fetch, n_more, n_finished,
                    books, open, n_ingested >>

\* What the store calls of one receive_crdt_operation may do.
Outcomes ==
    {"ok"} \cup (IF failures < MaxFailures
                 THEN {"query_err", "exec_err", "write_err"} ELSE {})

\* AfterApplyOp with `.unwrap()` in the place of `.ok()`.
AfterApplyOpUnwrap(applied) == IF applied THEN "send_ingested" ELSE "panicked"

\* `self.apply_op(op).await.ok()`: apply_op goes on to send Ingested when both
\* store calls succeed; an Err of either is discarded and the loop goes on.
AfterApplyOp(applied) == IF applied THEN "send_ingested" ELSE "ingesting"

\* NextOp taking the operations from the end of the list.
NextOpLast(messages) == messages[Len(messages)]

\* `for op in event.messages`: the operation the loop hands over next
NextOp(messages) == Head(messages)

\* `.unwrap()` of the find_first result in compare_message and of from_op in
\* apply_op: whether receive_crdt_operation panics.
Panics(d, op, outcome) ==
    \/ outcome = "query_err"
    \/ Applies(compare_message(d, op)) /\ from_op(op.typ) = {}

\* receive_crdt_operation up to the first await that can block: the clock
\* update, the merge of the watermark, compare_message, and apply_op's
\* projection and append.
ReceiveCrdtOperation(outcome) ==
    /\ pc = "ingesting"
    /\ event.messages # << >>
    /\ outcome \in Outcomes
    /\ LET op == NextOp(event.messages)
           clocks == OrInsert(timestamps, op.instance, op.timestamp)
           timestamp == MergeTimestamp(clocks[op.instance], op.timestamp)
           is_old == compare_message(db, op)
       IN  /\ event' = [event EXCEPT !.messages = Tail(@)]
           /\ n_received' = n_received + 1
           /\ clock' = update_with_timestamp(clock, op.timestamp)
           /\ IF Panics(db, op, outcome)
              THEN /\ outcome \in {"ok", "query_err"}
                   /\ pc' = "panicked"
                   /\ timestamps' = clocks
                   /\ failures' = IF outcome = "ok" THEN failures ELSE failures + 1
                   /\ last' = [op |-> <<op>>, before |-> Snapshot(timestamps),
                               is_old |-> FALSE, exec |-> FALSE, written |-> FALSE,
                               outcome |-> outcome]
                   /\ UNCHANGED << db, projected, pending, high >>
              ELSE /\ high' = Insert(high, op.instance,
                                     Greatest({op.timestamp} \cup
                                              {high[o] : o \in DOMAIN high \cap {op.instance}}))
                   /\ IF Applies(is_old)
                      THEN /\ db' = Ingest(db, op, outcome)
                           /\ projected' = IF outcome = "exec_err" THEN projected
                                           ELSE projected \cup {op}
                           /\ failures' = IF outcome = "ok" THEN failures ELSE failures + 1
                           /\ last' = [op |-> <<op>>, before |-> Snapshot(timestamps),
                                       is_old |-> is_old, exec |-> outcome # "exec_err",
                                       written |-> Applied(db, op, outcome),
                                       outcome |-> outcome]
                           /\ pc' = AfterApplyOp(Applied(db, op, outcome))
                           /\ IF Applied(db, op, outcome)
                              THEN /\ timestamps' = clocks
                                   /\ pending' = << op.instance, timestamp >>
                              ELSE /\ timestamps' = Insert(clocks, op.instance, timestamp)
                                   /\ UNCHANGED pending
                      ELSE /\ outcome = "ok"
                           /\ last' = [op |-> <<op>>, before |-> Snapshot(timestamps),
                                       is_old |-> is_old, exec |-> FALSE, written |-> FALSE,
                                       outcome |-> outcome]
                           /\ timestamps' = Insert(clocks, op.instance, timestamp)
                           /\ UNCHANGED << db, projected, failures, pending, pc >>
    /\ UNCHANGED << authored, state, req, counts, peer_db, orders, open,
                    n_ingested, seen, inbox, discarded >>

\* SendIngested without the send: apply_op returns once the row is written.
SendIngestedDropped ==
    /\ pc = "send_ingested"
    /\ timestamps' = Insert(timestamps, pending[1], pending[2])
    /\ pending' = << >>
    /\ pc' = "ingesting"
    /\ UNCHANGED << state, event, db, req, counts, books, open, n_ingested >>

\* apply_op: req_tx.send(Request::Ingested); then the second write of the watermark
SendIngested ==
    /\ pc = "send_ingested"
    /\ CanSend(req)
    /\ req' = Append(req, [type |-> "Ingested", timestamps |-> {}])
    /\ timestamps' = Insert(timestamps, pending[1], pending[2])
    /\ pending' = << >>
    /\ pc' = "ingesting"
    /\ n_ingested' = n_ingested + 1
    /\ UNCHANGED << state, event, db, counts, books, open >>

\* AfterBatch with the two arms of the match exchanged.
AfterBatchSwapped(has_more) == IF has_more THEN "send_finished" ELSE "send_messages"

\* `match event.has_more`: where the tick goes once the batch is exhausted
AfterBatch(has_more) == IF has_more THEN "send_messages" ELSE "send_finished"

\* BatchExhausted that asks for the next page itself when has_more is set,
\* before the tick of RetrievingMessages asks again.
BatchExhaustedRequesting ==
    /\ pc = "ingesting"
    /\ event.messages = << >>
    /\ pc' = AfterBatch(event.has_more)
    /\ state' = IF pc' = "send_messages" THEN "RetrievingMessages" ELSE state
    /\ n_more' = IF event.has_more THEN n_more + 1 ELSE n_more
    /\ event' = NoEvent
    /\ IF event.has_more
       THEN /\ CanSend(req)
            /\ req' = Append(req, [type |-> "Messages", timestamps |-> Snapshot(timestamps)])
            /\ outstanding' = outstanding + 1
       ELSE UNCHANGED << req, outstanding >>
    /\ UNCHANGED << timestamps, pending, db, n_fetch, n_finished, books,
                    open, n_ingested >>

\* tick, State::Ingesting: the end of the `for` loop over event.messages
BatchExhausted ==
    /\ pc = "ingesting"
    /\ event.messages = << >>
    /\ pc' = AfterBatch(event.has_more)
    /\ state' = IF pc' = "send_messages" THEN "RetrievingMessages" ELSE state
    /\ n_more' = IF event.has_more THEN n_more + 1 ELSE n_more
    /\ event' = NoEvent
    /\ UNCHANGED << timestamps, pending, db, req, n_fetch, n_finished, books,
                    open, n_ingested, outstanding >>

\* tick, State::Ingesting: io.send(Request::FinishedIngesting)
SendFinished ==
    /\ pc = "send_finished"
    /\ CanSend(req)
    /\ req' = Append(req, [type |-> "FinishedIngesting", timestamps |-> {}])
    /\ state' = "WaitingForNotification"
    /\ pc' = Await(state')
    /\ n_finished' = n_finished + 1
    /\ UNCHANGED << event, timestamps, pending, db, n_fetch, n_more, books,
                    open, n_ingested, outstanding >>

\* The owner takes the next request from req_rx.
OwnerRecv ==
    /\ req # << >>
    /\ req' = Tail(req)
    /\ UNCHANGED << state, event, pc, timestamps, pending, db, counts, books,
                    open, n_ingested >>

Next ==
    \/ Notification
    \/ DiscardEvent
    \/ SendMessages
    \/ \E ev \in Batches : Messages(ev)
    \/ \E outcome \in {"ok", "query_err", "exec_err", "write_err"} :
          ReceiveCrdtOperation(outcome)
    \/ SendIngested
    \/ BatchExhausted
    \/ SendFinished
    \/ OwnerRecv

Spec == Init /\ [][Next]_vars

(***************************************************************************)
(* The actor with an event source that can be closed: every sender dropped *)
(* and every queued event taken.                                           *)
(***************************************************************************)
InitClose ==
    /\ Init
    /\ authored = { Unrecognised("X", 1), Update("X", 2), UpdateOther("X", 3) }

\* The owner drops the last event sender.
CloseEvents ==
    /\ open
    /\ open' = FALSE
    /\ UNCHANGED << state, event, pc, timestamps, pending, db, req, counts,
                    books, n_ingested >>

\* Loop that goes on with the same actor when tick yields nothing.
LoopForever(this, tick) == IF tick = "None" THEN this ELSE tick

\* `this = match this.tick().await { Some(this) => this, None => break }`
Loop(this, tick) == IF tick = "None" THEN "stopped" ELSE tick

\* wait! on a closed event source: recv yields nothing and tick returns None.
WaitClosed ==
    /\ pc \in {"wait_notification", "wait_messages"}
    /\ ~open
    /\ pc' = Loop(pc, "None")
    /\ UNCHANGED << state, event, timestamps, pending, db, req, counts, books,
                    open, n_ingested >>

NextClose ==
    \/ Next
    \/ CloseEvents
    \/ WaitClosed

\* A task whose await is ready is polled again.
SpecClose == InitClose /\ [][NextClose]_vars /\ WF_vars(WaitClosed)

(***************************************************************************)
(* The actor with an owner that answers: each fetch-request gets a batch,  *)
(* the request channel is drained, every store call returns and the task   *)
(* is polled whenever it can go on.                                        *)
(***************************************************************************)
SpecDrain ==
    /\ Init
    /\ [][Next]_vars
    /\ WF_vars(SendMessages)
    /\ WF_vars(\E ev \in Batches : Messages(ev))
    /\ WF_vars(\E outcome \in {"ok", "query_err", "exec_err", "write_err"} :
                  ReceiveCrdtOperation(outcome))
    /\ WF_vars(SendIngested)
    /\ WF_vars(BatchExhausted)
    /\ WF_vars(SendFinished)
    /\ WF_vars(OwnerRecv)

(***************************************************************************)
(* The watermark table under a concurrent reader. receive_crdt_operation   *)
(* takes the write lock twice, with compare_message and apply_op awaited   *)
(* in between; a reader takes the read lock at any point.                  *)
(***************************************************************************)
\* The first write lock: entry(op.instance).or_insert_with, and the merge of
\* the local copy.
FirstWrite ==
    /\ pending = << >>
    /\ n_received < MaxOps
    /\ \E op \in authored :
          LET clocks == OrInsert(timestamps, op.instance, op.timestamp)
          IN  /\ timestamps' = clocks
              /\ pending' = << op.instance,
                               MergeTimestamp(clocks[op.instance], op.timestamp) >>
              /\ high' = Insert(high, op.instance,
                                Greatest({op.timestamp} \cup
                                         {high[o] : o \in DOMAIN high \cap {op.instance}}))
    /\ n_received' = n_received + 1
    /\ UNCHANGED << authored, state, event, pc, db, req, failures, counts,
                    projected, last, peer_db, orders, open, clock, n_ingested,
                    seen, inbox, discarded >>

\* The second write lock: insert(op_instance, timestamp).
SecondWrite ==
    /\ pending # << >>
    /\ timestamps' = Insert(timestamps, pending[1], pending[2])
    /\ pending' = << >>
    /\ UNCHANGED << authored, state, event, pc, db, req, failures, n_received,
                    counts, projected, last, peer_db, orders, open, clock, high,
                    n_ingested, seen, inbox, discarded >>

\* A reader takes the read lock and copies the table.
Read ==
    /\ seen' = timestamps
    /\ UNCHANGED << authored, state, event, pc, timestamps, pending, db, req,
                    failures, n_received, counts, projected, last, peer_db,
                    orders, open, clock, high, n_ingested, inbox, discarded >>

NextReader == FirstWrite \/ SecondWrite \/ Read

SpecReader == Init /\ [][NextReader]_vars

(***************************************************************************)
(* Two replicas that ingest one set of operations in two orders, with no   *)
(* store failure: the first replica in db, the second in peer_db.          *)
(***************************************************************************)
(* The event channel made explicit: the owner sends events of either kind  *)
(* at any time, the actor dequeues them at its two waits; no store call    *)
(* fails.                                                                  *)
(***************************************************************************)
\* create_actor_io makes the event channel with the capacity of the request channel.
EventCap == ReqCap

\* Event::Notification
EventNotification == [type |-> "Notification", messages |-> << >>, has_more |-> FALSE]

\* Event::Messages(MessagesEvent { messages, has_more })
EventMessages(ev) ==
    [type |-> "Messages", messages |-> ev.messages, has_more |-> ev.has_more]

\* The kind of an event, a batch without operations apart.
Kind(e) == IF e.type = "Messages" /\ e.messages = << >> THEN "NoMessages" ELSE e.type

\* The operations the owner puts into its batches.
Delivered == { Update("Y", 2) }

\* The events the owner may send.
Events ==
    {EventNotification} \cup
    { EventMessages(ev) :
        ev \in { b \in Batches : \A k \in DOMAIN b.messages : b.messages[k] \in Delivered } }

InitEvents ==
    /\ Init
    /\ authored = { Update("X", 1), Update("X", 2), Update("Y", 2) }

\* The owner sends an event: event_tx.send(e).
OwnerSend(e) ==
    /\ open
    /\ Len(inbox) < EventCap
    /\ inbox' = Append(inbox, e)
    /\ UNCHANGED << authored, state, event, pc, timestamps, pending, db, req,
                    failures, n_received, counts, projected, last, peer_db,
                    orders, open, clock, high, n_ingested, seen, discarded >>

\* Awaited with the pattern of the second wait at both waits.
AwaitedMessages(p) == "Messages"

\* The pattern of the wait! at an await point: Event::Notification in
\* WaitingForNotification, Event::Messages(event) in RetrievingMessages.
Awaited(p) == IF p = "wait_notification" THEN "Notification" ELSE "Messages"

\* tick, State::WaitingForNotification: the wait! dequeues an event that
\* matches its pattern.
RecvNotification ==
    /\ pc = "wait_notification"
    /\ inbox # << >>
    /\ Head(inbox).type = Awaited(pc)
    /\ inbox' = Tail(inbox)
    /\ state' = "RetrievingMessages"
    /\ pc' = Await(state')
    /\ n_fetch' = 0
    /\ n_more' = 0
    /\ n_finished' = 0
    /\ UNCHANGED << authored, event, timestamps, pending, db, req, failures,
                    n_received, outstanding, projected, last, peer_db, orders,
                    open, clock, high, n_ingested, seen, discarded >>

\* tick, State::RetrievingMessages: the wait! dequeues an event that matches
\* its pattern and yields the batch.
RecvMessages ==
    /\ pc = "wait_messages"
    /\ inbox # << >>
    /\ Head(inbox).type = Awaited(pc)
    /\ n_received + Len(Head(inbox).messages) <= MaxOps
    /\ Head(inbox).has_more => n_more < MaxMore
    /\ inbox' = Tail(inbox)
    /\ state' = "Ingesting"
    /\ event' = [messages |-> Head(inbox).messages, has_more |-> Head(inbox).has_more]
    /\ pc' = Await(state')
    /\ outstanding' = outstanding - 1
    /\ UNCHANGED << authored, timestamps, pending, db, req, failures, n_received,
                    n_fetch, n_more, n_finished, projected, last, peer_db,
                    orders, open, clock, high, n_ingested, seen, discarded >>

\* wait! dequeues an event that does not match its pattern and waits on.
Discard ==
    /\ pc \in {"wait_notification", "wait_messages"}
    /\ inbox # << >>
    /\ Head(inbox).type # Awaited(pc)
    /\ inbox' = Tail(inbox)
    /\ discarded' = discarded \cup {Kind(Head(inbox))}
    /\ UNCHANGED << authored, state, event, pc, timestamps, pending, db, req,
                    failures, n_received, counts, projected, last, peer_db,
                    orders, open, clock, high, n_ingested, seen >>

NextEvents ==
    \/ \E e \in Events : OwnerSend(e)
    \/ RecvNotification
    \/ RecvMessages
    \/ Discard
    \/ SendMessages
    \/ ReceiveCrdtOperation("ok")
    \/ SendIngested
    \/ BatchExhausted
    \/ SendFinished
    \/ OwnerRecv

SpecEvents == InitEvents /\ [][NextEvents]_vars

(***************************************************************************)
\* The orders in which the operations of a set can be delivered, each once.
Orders(S) ==
    { f \in [1..Cardinality(S) -> S] : \A i, j \in 1..Cardinality(S) : f[i] = f[j] => i = j }

InitConverge ==
    /\ authored \in Worlds
    /\ \E S \in SUBSET authored :
          /\ \A a, b \in S : a.timestamp = b.timestamp => a = b
          /\ orders \in Orders(S) \X Orders(S)
    /\ state = "WaitingForNotification"
    /\ event = NoEvent
    /\ pc = "wait_notification"
    /\ timestamps = << >>
    /\ pending = << >>
    /\ db = EmptyDb
    /\ req = << >>
    /\ failures = 0
    /\ n_received = 0
    /\ n_fetch = 0
    /\ n_more = 0
    /\ n_finished = 0
    /\ outstanding = 0
    /\ projected = {}
    /\ last = [op |-> << >>, before |-> {}, is_old |-> FALSE, exec |-> FALSE,
               written |-> FALSE, outcome |-> "ok"]
    /\ peer_db = EmptyDb
    /\ open = TRUE
    /\ clock = 0
    /\ high = << >>
    /\ n_ingested = 0
    /\ seen = << >>
    /\ inbox = << >>
    /\ discarded = {}

actor == << state, event, pc, timestamps, pending, req, counts, authored,
            failures, n_received, projected, last, open, clock, high,
            n_ingested, seen, inbox, discarded >>

\* The first replica ingests the next operation of its order.
ReplicaIngest ==
    /\ orders[1] # << >>
    /\ db' = Ingest(db, Head(orders[1]), "ok")
    /\ orders' = << Tail(orders[1]), orders[2] >>
    /\ UNCHANGED << peer_db, actor >>

\* The second replica ingests the next operation of its order.
PeerIngest ==
    /\ orders[2] # << >>
    /\ peer_db' = Ingest(peer_db, Head(orders[2]), "ok")
    /\ orders' = << orders[1], Tail(orders[2]) >>
    /\ UNCHANGED << db, actor >>

NextConverge == ReplicaIngest \/ PeerIngest

SpecConverge == InitConverge /\ [][NextConverge]_vars

(***************************************************************************)
(* Properties.                                                             *)
(***************************************************************************)
\* The operation receive_crdt_operation is about to take from the batch.
Receiving == pc = "ingesting" /\ event.messages # << >>
ReceivedOp == Head(event.messages)

\* The latest operation has gone through the whole of receive_crdt_operation.
Completed == last.op # << >> /\ pc \notin {"send_ingested", "panicked"}
LastOp == last.op[1]

\* C1: for every origin, the value stored in the watermark table never
\* decreases from one state to the next (and an entry never disappears),
\* whatever is delivered: late, duplicate, stale or failing operations.
WatermarkNeverDecreases ==
    [][\A o \in DOMAIN timestamps :
          o \in DOMAIN timestamps' /\ timestamps[o] <= timestamps'[o]]_vars

\* C1 witness: an operation older than its origin's watermark has been
\* processed to the end and the watermark stands above its timestamp.
LateOperationProcessed ==
    /\ Completed
    /\ LastOp.timestamp < timestamps[LastOp.instance]

\* C2: once receive_crdt_operation has processed an operation of origin o,
\* the watermark of o is the greater of its value before (the operation's
\* timestamp when o had no entry) and the operation's timestamp, whether the
\* operation was stale, was applied or failed to apply.
WatermarkIsMaximum ==
    Completed =>
        \A t \in Timestamps :
            timestamps[LastOp.instance] = t <=>
                /\ t >= LastOp.timestamp
                /\ \A e \in last.before : e[1] = LastOp.instance => t >= e[2]
                /\ \/ t = LastOp.timestamp
                   \/ <<LastOp.instance, t>> \in last.before

\* C2 witness: an operation whose projection failed has been processed, its
\* origin had a greater watermark before, and that watermark is kept.
FailedOperationMerged ==
    /\ Completed
    /\ ~last.is_old /\ ~last.exec
    /\ \E e \in last.before : e[1] = LastOp.instance /\ e[2] > LastOp.timestamp

\* Two operations contend for the same logical target: (model, record_id,
\* kind) for shared changes, (relation, item_id, kind) for relation changes.
SameTarget(a, b) ==
    /\ a.typ.tag = b.typ.tag
    /\ kind(a.typ.data) = kind(b.typ.data)
    /\ IF a.typ.tag = "Shared"
       THEN a.typ.model = b.typ.model /\ a.typ.record_id = b.typ.record_id
       ELSE a.typ.relation = b.typ.relation /\ a.typ.relation_item = b.typ.relation_item

\* The audit-log rows on the logical target of op, of either table.
TargetRows(d, op) ==
    IF op.typ.tag = "Shared"
    THEN { r \in d.shared_operation :
             r.model = op.typ.model /\ r.record_id = op.typ.record_id
             /\ r.kind = kind(op.typ.data) }
    ELSE { r \in d.relation_operation :
             r.relation = op.typ.relation /\ r.item_id = op.typ.relation_item
             /\ r.kind = kind(op.typ.data) }

StaleDiscarded ==
    [][(Receiving /\ n_received' = n_received + 1 /\ pc' # "panicked"
        /\ compare_message(db, ReceivedOp)) =>
          /\ db' = db
          /\ req' = req
          /\ pc' = "ingesting"]_vars

\* C4 witness: the latest operation was found stale while the store held
\* rows, and it has been processed to the end.
StaleOperationProcessed ==
    /\ Completed
    /\ last.is_old
    /\ compare_message(db, LastOp)

\* Every timestamp of the behaviour's operations is below the sign bit.
BelowSignBit == \A o \in authored : o.timestamp < Half

\* C5: idempotence: an operation that an earlier delivery applied and
\* recorded, delivered again, leaves the domain rows as they were, whatever
\* was delivered in between (stated for behaviours with no store failure).
RedeliveryChangesNothing ==
    [][(Receiving /\ n_received' = n_received + 1 /\ failures' = 0
        /\ Recorded(db, ReceivedOp)) =>
          Domain(db') = Domain(db)]_vars

\* C6: each operation is applied exactly once: the projection of an
\* operation that has been projected before is not executed again (stated
\* for behaviours with no store failure).
ProjectedAtMostOnce ==
    [][(Receiving /\ n_received' = n_received + 1 /\ failures' = 0
        /\ ReceivedOp \in projected) =>
          ~last'.exec]_vars

\* C7: staleness monotonicity: once an operation A has been applied and
\* recorded, an operation B on the same logical target with a smaller
\* timestamp that is delivered later is discarded and the store is left as
\* it was.
OlderOperationDiscarded ==
    [][(/\ Receiving /\ n_received' = n_received + 1 /\ pc' # "panicked"
        /\ \E a \in projected :
              /\ Recorded(db, a)
              /\ SameTarget(a, ReceivedOp)
              /\ a.timestamp > ReceivedOp.timestamp) =>
          /\ ~last'.exec
          /\ db' = db]_vars

\* C8: last writer wins: an operation is never projected over an operation
\* of the same logical target with a greater timestamp, also after a store
\* failure between projection and append (stated for timestamps below the
\* sign bit).
NeverProjectedOverNewer ==
    [][(Receiving /\ n_received' = n_received + 1 /\ pc' # "panicked"
        /\ last'.exec /\ BelowSignBit) =>
          \A a \in projected :
              SameTarget(a, ReceivedOp) => a.timestamp <= ReceivedOp.timestamp]_vars

\* C9: convergence: two replicas that have ingested the same operations
\* (pairwise distinct timestamps, no store failure) in two orders hold the
\* same domain rows.
Converged ==
    (orders[1] = << >> /\ orders[2] = << >>) => Domain(db) = Domain(peer_db)

\* C10: batch draining: within a drain sequence one fetch-request follows the
\* Notification and one follows each exhausted batch with has_more = true, and
\* no FinishedIngesting is sent until a batch with has_more = false is
\* exhausted; then exactly one FinishedIngesting is sent, no further
\* fetch-request, and the actor is back in WaitingForNotification. The
\* fetch-requests of a drain sequence number one more than its has_more
\* batches.
BatchDraining ==
    /\ pc = "send_messages" => n_fetch = n_more /\ n_finished = 0
    /\ pc \in {"wait_messages", "ingesting", "send_ingested", "send_finished"} =>
          n_fetch = n_more + 1 /\ n_finished = 0
    /\ pc = "wait_notification" =>
          /\ state = "WaitingForNotification"
          /\ \/ n_fetch = 0 /\ n_more = 0 /\ n_finished = 0
             \/ n_fetch = n_more + 1 /\ n_finished = 1
    /\ pc \in {"send_messages", "wait_messages"} => state = "RetrievingMessages"

\* C10 witness: a drain sequence with a has_more batch has ended: two
\* fetch-requests and one FinishedIngesting were sent.
DrainedTwoBatches ==
    /\ pc = "wait_notification"
    /\ n_more = 1
    /\ n_fetch = 2
    /\ n_finished = 1

\* C11: order preservation: receive_crdt_operation is called on the
\* operations of a batch in list order, each call starting only when the one
\* before has finished (its watermark written back), and the batch is left,
\* and the next fetch-request sent, only when no operation of it remains.
OrderPreserved ==
    [][/\ n_received' = n_received + 1 =>
            /\ pc = "ingesting"
            /\ pending = << >>
            /\ event.messages # << >>
            /\ event'.messages = Tail(event.messages)
            /\ pc' # "panicked" => last'.op = << Head(event.messages) >>
       /\ (pc = "ingesting" /\ pc' \in {"send_messages", "send_finished"}) =>
            event.messages = << >>
       /\ n_fetch' = n_fetch + 1 =>
            /\ event.messages = << >>
            /\ pending = << >>]_vars

\* C11 witness: the next page has been requested after a batch with
\* has_more = true, and at least two operations were processed before.
NextPageRequested ==
    /\ pc = "wait_messages"
    /\ n_more = 1
    /\ n_fetch = 2
    /\ n_received >= 2
    /\ last.op # << >>

\* The step puts a request of the given type on the request channel.
Emitted(type) == Len(req') = Len(req) + 1 /\ req'[Len(req')].type = type

\* C12: the actor starts in WaitingForNotification and leaves it only by
\* consuming a Notification; a fetch-request is sent only from
\* RetrievingMessages, which is entered only by that step or at the end of a
\* batch with has_more = true.
FetchOnlyWhenAsked ==
    /\ state = "WaitingForNotification"
    /\ [][/\ (state = "WaitingForNotification" /\ state' # state) => Notification
          /\ Emitted("Messages") =>
                pc = "send_messages" /\ state = "RetrievingMessages"
          /\ (pc' = "send_messages" /\ pc # pc') =>
                \/ Notification
                \/ /\ pc = "ingesting"
                   /\ event.messages = << >>
                   /\ event.has_more]_vars

\* C12 witness: the first fetch-request of a drain sequence is on the channel.
FirstFetchSent ==
    /\ pc = "wait_messages"
    /\ n_fetch = 1
    /\ n_more = 0
    /\ req # << >>
    /\ req[Len(req)].type = "Messages"

\* C13: a fetch-request carries the watermark table as it is when the request
\* is sent: one (origin, timestamp) pair per origin of the table, the
\* timestamp being the greatest among the operations of that origin
\* processed so far.
FetchCarriesWatermarks ==
    [][Emitted("Messages") =>
          LET sent == req'[Len(req')].timestamps
          IN  /\ sent = { <<o, timestamps[o]>> : o \in DOMAIN timestamps }
              /\ sent = { <<o, high[o]>> : o \in DOMAIN high }
              /\ \A a, b \in sent : a[1] = b[1] => a = b
              /\ pending = << >>]_vars

\* C13 witness: a fetch-request with the watermarks of two origins is on the
\* channel.
FetchWithTwoOrigins ==
    /\ req # << >>
    /\ req[Len(req)].type = "Messages"
    /\ Cardinality(req[Len(req)].timestamps) = 2
    /\ DOMAIN timestamps = {"X", "Y"}

\* The number of rows in the two audit-log tables.
NumRows(d) == Cardinality(d.shared_operation) + Cardinality(d.relation_operation)

\* C14: an Ingested request is sent once for each processing of an operation
\* that was not stale, was projected and was appended to the audit log, and
\* for no other: the requests sent, with the one about to be sent, number the
\* rows of the audit log.
IngestedOncePerApplied ==
    /\ n_ingested = 0
    /\ [][/\ n_received' = n_received + 1 =>
                /\ pc' = "send_ingested" <=> NumRows(db') = NumRows(db) + 1
                /\ pc' = "send_ingested" =>
                      /\ ~compare_message(db, ReceivedOp)
                      /\ last'.exec
                      /\ Recorded(db', ReceivedOp) /\ ~Recorded(db, ReceivedOp)
          /\ Emitted("Ingested") <=> (pc = "send_ingested" /\ pc' = "ingesting")
          /\ Emitted("Ingested") <=> n_ingested' = n_ingested + 1
          /\ n_ingested' + (IF pc' = "send_ingested" THEN 1 ELSE 0) = NumRows(db')]_vars

\* C14 witness: of three operations processed one was applied and announced,
\* one failed in the store and the latest was stale.
OneOfThreeAnnounced ==
    /\ n_received = 3
    /\ n_ingested = 1
    /\ failures = 1
    /\ last.is_old
    /\ pc = "ingesting"

\* C15: a failure of the projection or of the audit-log append neither halts
\* the actor nor is retried: the operation is dropped from the batch, the
\* actor stays in the loop over the remaining operations with the batch's
\* has_more flag as it was, and at the end of the list it takes the branch
\* that has_more calls for.
ApplyFailureSwallowed ==
    [][/\ (n_received' = n_received + 1
           /\ (last'.outcome \in {"exec_err", "write_err"}
                  \/ (last'.exec /\ ~last'.written))) =>
              /\ pc' = "ingesting"
              /\ state' = state
              /\ event' = [event EXCEPT !.messages = Tail(@)]
              /\ req' = req
       /\ (pc = "ingesting" /\ pc' # pc /\ event.messages = << >>) =>
              pc' = (IF event.has_more THEN "send_messages" ELSE "send_finished")]_vars

\* C15 witness: a store call failed for one operation, a later operation was
\* applied and recorded, and the drain sequence ended with FinishedIngesting.
DrainedAfterFailure ==
    /\ failures = 1
    /\ pc = "wait_notification"
    /\ n_finished = 1
    /\ last.op # << >>
    /\ last.written

\* C16: a store error in the query of compare_message does not panic or stop
\* the actor: the loop goes on to the next operation of the batch.
QueryErrorSurvived ==
    [][(n_received' = n_received + 1 /\ last'.outcome = "query_err") =>
          /\ pc' = "ingesting"
          /\ event' = [event EXCEPT !.messages = Tail(@)]]_vars

\* C17: an operation whose payload the applier does not recognise is rejected
\* for itself only: with no store error the actor does not crash, the store is
\* left as it was and the loop goes on to the next operation of the batch.
UnrecognisedRejected ==
    [][(Receiving /\ n_received' = n_received + 1 /\ last'.outcome = "ok"
        /\ from_op(ReceivedOp.typ) = {}) =>
          /\ pc' = "ingesting"
          /\ db' = db
          /\ event' = [event EXCEPT !.messages = Tail(@)]]_vars

\* C18: while the event source is open the loop keeps iterating: whatever the
\* events and the store outcomes, the actor is at an await of tick in one of
\* the three states.
LoopKeepsRunning ==
    open =>
        /\ pc \in {"wait_notification", "send_messages", "wait_messages",
                   "ingesting", "send_ingested", "send_finished"}
        /\ state \in {"WaitingForNotification", "RetrievingMessages", "Ingesting"}

ClockCoversObserved ==
    \A o \in DOMAIN high : clock >= high[o]

\* C21: tie policy: an operation whose logical target holds a recorded
\* operation of another origin with an equal timestamp (and none with a greater
\* one) is not stale; with no store error it is projected and recorded, so the
\* domain row is the one its projection leaves: the operation applied last wins.
TieApplied ==
    [][(/\ Receiving /\ n_received' = n_received + 1 /\ pc' # "panicked"
        /\ \E r \in TargetRows(db, ReceivedOp) :
              /\ r.timestamp = AsI64(ReceivedOp.timestamp)
              /\ r.instance # ReceivedOp.instance
        /\ \A r \in TargetRows(db, ReceivedOp) :
              r.timestamp <= AsI64(ReceivedOp.timestamp)) =>
          /\ ~last'.is_old
          /\ last'.outcome = "ok" =>
                /\ last'.exec
                /\ Domain(db') = Domain(Exec(db, ReceivedOp))
                /\ Recorded(db', ReceivedOp)]_vars

\* C21 witness: two operations of different origins with equal timestamps on
\* one target are both recorded, and the record holds the value of the one
\* processed last.
TieBothRecorded ==
    /\ Completed
    /\ last.written
    /\ LastOp.typ.tag = "Shared"
    /\ LastOp.typ.data.variant = "Update"
    /\ db.records[RecordKey(LastOp)].name = LastOp.typ.data.value
    /\ \E a \in authored :
          /\ a.instance # LastOp.instance
          /\ a.timestamp = LastOp.timestamp
          /\ SameTarget(a, LastOp)
          /\ Recorded(db, a)

\* The actor stands at a send on the request channel.
AtSend == pc \in {"send_messages", "send_ingested", "send_finished"}

\* The type of the request the actor is about to send.
Sending ==
    CASE pc = "send_messages" -> "Messages"
      [] pc = "send_ingested" -> "Ingested"
      [] pc = "send_finished" -> "FinishedIngesting"

\* C22: backpressure: the request channel never holds more than its capacity;
\* while it is full an actor standing at a send does nothing (only the owner
\* takes a request); the actor leaves a send only by putting its request on
\* the channel, and requests leave the channel only at its head, taken by the
\* owner: none is dropped.
Backpressure ==
    [][/\ Len(req') <= ReqCap
       /\ (AtSend /\ Len(req) = ReqCap) =>
             /\ req' = Tail(req)
             /\ << pc, state, event, timestamps, pending, db, n_received,
                   n_ingested, counts >>' =
                << pc, state, event, timestamps, pending, db, n_received,
                   n_ingested, counts >>
       /\ (AtSend /\ pc' # pc) => Emitted(Sending)
       /\ req' # req =>
             \/ req # << >> /\ req' = Tail(req)
             \/ AtSend /\ Emitted(Sending) /\ SubSeq(req', 1, Len(req)) = req]_vars

\* C22 witness: the actor stands at the send of Ingested with the channel
\* full.
BlockedAtIngested ==
    /\ pc = "send_ingested"
    /\ Len(req) = ReqCap

\* C23: liveness of a drain: with an owner that answers every fetch-request,
\* ends the pages and drains the request channel, a drain sequence that has
\* begun ends with the actor back in WaitingForNotification, FinishedIngesting
\* sent (stated for behaviours in which no store call fails).
DrainCompletes ==
    (state = "RetrievingMessages") ~>
        ((state = "WaitingForNotification" /\ n_finished = 1) \/ failures > 0)

ReaderSeesMonotone ==
    [][/\ \A o \in DOMAIN seen : o \in DOMAIN seen' /\ seen[o] <= seen'[o]
       /\ \A o \in DOMAIN seen' : o \in DOMAIN high' /\ seen'[o] <= high'[o]]_vars

\* C25 witness: the reader has read the table between the two writes of an
\* operation that is newer than its origin's watermark: it holds the earlier
\* watermark while the greater one is about to be written.
ReadBetweenWrites ==
    /\ pending # << >>
    /\ seen = timestamps
    /\ pending[1] \in DOMAIN seen
    /\ seen[pending[1]] < pending[2]

\* The audit log with only its rows on the logical target of op.
OnlyTarget(d, op) ==
    [d EXCEPT !.shared_operation = IF op.typ.tag = "Shared" THEN TargetRows(d, op) ELSE {},
              !.relation_operation = IF op.typ.tag = "Relation" THEN TargetRows(d, op) ELSE {}]

\* The audit log without its rows on the logical target of op.
OffTarget(d, op) ==
    [d EXCEPT !.shared_operation = @ \ TargetRows(d, op),
              !.relation_operation = @ \ TargetRows(d, op)]

\* The relation operation op addressed to the group g.
WithGroup(op, g) == [op EXCEPT !.typ.relation_group = g]

\* C26: staleness is decided by the rows on the operation's logical target
\* alone: the verdict of compare_message is the verdict over the target's rows
\* only, the rows off the target (another record, another kind on the same
\* record) alone never make an operation stale, and the verdict on a relation
\* operation does not depend on the group it names.
StalenessPerTarget ==
    \A op \in authored :
        /\ compare_message(db, op) = compare_message(OnlyTarget(db, op), op)
        /\ ~compare_message(OffTarget(db, op), op)
        /\ op.typ.tag = "Relation" =>
              \A r \in db.relation_operation :
                  compare_message(db, WithGroup(op, r.group_id)) = compare_message(db, op)

\* C26 witness: a relation operation is stale and every newer row on its
\* target names another group than the operation does.
StaleByOtherGroup ==
    \E op \in authored :
        /\ op.typ.tag = "Relation"
        /\ compare_message(db, op)
        /\ \A r \in TargetRows(db, op) :
              r.timestamp > AsI64(op.timestamp) => r.group_id # op.typ.relation_group

\* C27: an Ingested request is emitted in state Ingesting only and announces
\* the operation processed last, so the requests follow the order of the
\* batch: the next operation of the batch is taken, and the batch is left
\* for the FinishedIngesting or the fetch request that follows it, only when
\* every operation applied so far has been announced.
IngestedWithinBatch ==
    [][/\ Emitted("Ingested") =>
             /\ state = "Ingesting" /\ state' = "Ingesting"
             /\ last.written /\ Recorded(db, LastOp)
             /\ n_ingested = NumRows(db) - 1
       /\ n_received' = n_received + 1 => n_ingested = NumRows(db)
       /\ (pc = "ingesting" /\ pc' \in {"send_messages", "send_finished"}) =>
             n_ingested = NumRows(db)
       /\ (Emitted("FinishedIngesting") \/ Emitted("Messages")) =>
             /\ n_ingested = NumRows(db)
             /\ pc # "send_ingested"]_vars

\* C27 witness: the two operations of one batch were applied and announced,
\* the batch was the only one fetched and FinishedIngesting has followed it.
BothAnnouncedThenFinished ==
    /\ n_fetch = 1
    /\ n_received = 2
    /\ n_ingested = 2
    /\ n_finished = 1

\* The audit log holding the row of the operation a and no other.
OnlyRowOf(a) == write_crdt_op_to_db(EmptyDb, a)

\* C28: the staleness comparison follows the order of the timestamps as
\* unsigned values, also at and above the sign bit: of two operations on one
\* logical target the one with the smaller timestamp is reported stale once
\* the other is recorded, and the one with the greater timestamp is not
\* reported stale on account of the recorded row of the smaller.
StalenessFollowsUnsignedOrder ==
    \A a, b \in authored :
        (SameTarget(a, b) /\ a.timestamp < b.timestamp) =>
            /\ Recorded(db, b) => compare_message(db, a)
            /\ Recorded(db, a) => ~compare_message(OnlyRowOf(a), b)

\* C29: apply_op projects, then appends, then announces: every operation in
\* the audit log has been projected, a row is appended only to the store that
\* holds the operation's projection and an Ingested is then owed, a failed
\* projection leaves the store with its audit log as it was, and an Ingested
\* announces an operation that is recorded.
ProjectedThenRecorded ==
    [][/\ \A op \in authored : Recorded(db', op) => op \in projected'
       /\ NumRows(db') # NumRows(db) =>
             /\ Receiving /\ n_received' = n_received + 1
             /\ last'.exec /\ last'.outcome = "ok"
             /\ db' = write_crdt_op_to_db(Exec(db, ReceivedOp), ReceivedOp)
             /\ pc' = "send_ingested" /\ req' = req
       /\ (n_received' = n_received + 1 /\ last'.outcome = "exec_err") =>
             /\ db' = db
             /\ pc' # "send_ingested"
       /\ Emitted("Ingested") =>
             /\ db' = db
             /\ Recorded(db, LastOp) /\ LastOp \in projected]_vars

\* C29 witness: one operation was projected, recorded and announced, and the
\* projection of the next has failed: it is not in the audit log.
ProjectionFailedNotRecorded ==
    /\ Completed
    /\ last.outcome = "exec_err"
    /\ ~Recorded(db, LastOp)
    /\ NumRows(db) = 1
    /\ n_ingested = 1

\* The step consumes a batch event.
Consumed == pc = "wait_messages" /\ pc' # pc

\* C30: at most one fetch request is outstanding: a fetch request is emitted
\* only when every earlier one has been answered by a consumed batch event
\* and the batch consumed last is drained; while one is outstanding the actor
\* emits no request, processes no operation and leaves the store alone; the
\* only step that ends the wait consumes one batch event and enters
\* Ingesting with it, and a batch event is consumed only for an outstanding
\* fetch request.
OneFetchOutstanding ==
    /\ outstanding = 0
    /\ [][/\ outstanding' \in {0, 1}
          /\ Emitted("Messages") =>
                /\ outstanding = 0 /\ outstanding' = 1
                /\ event = NoEvent
                /\ pc' = "wait_messages"
          /\ outstanding = 1 =>
                /\ Len(req') <= Len(req)
                /\ n_received' = n_received /\ db' = db /\ timestamps' = timestamps
                /\ pc = "wait_messages"
          /\ Consumed <=> (outstanding = 1 /\ outstanding' = 0)
          /\ Consumed => state' = "Ingesting" /\ event' \in Batches
          /\ outstanding' > outstanding => Emitted("Messages")]_vars

\* C30 witness: a second fetch request is outstanding; the batch that
\* answered the first was consumed and its two operations were processed.
SecondFetchOutstanding ==
    /\ outstanding = 1
    /\ n_fetch = 2
    /\ n_received = 2

\* The state of the actor and of its store, the event channel apart.
AllButEvents ==
    << authored, state, event, pc, timestamps, pending, db, req, failures,
       n_received, counts, projected, last, clock, high, n_ingested, open >>

\* The step dequeues an event of the given type at the given wait.
Dequeued(wait, type) ==
    /\ pc = wait
    /\ inbox # << >> /\ inbox' = Tail(inbox)
    /\ Head(inbox).type = type

\* C31: an event of the kind the actor is not waiting for is dequeued and has
\* no effect: a Notification dequeued at the wait for a batch and a Messages
\* event dequeued at the wait for a notification leave the actor's state, its
\* await point, the requests (no further fetch request), the operations
\* processed, the store and the watermark table as they were; events are
\* dequeued at the two waits only.
MismatchedEventDiscarded ==
    [][/\ Dequeued("wait_messages", "Notification") => AllButEvents' = AllButEvents
       /\ Dequeued("wait_notification", "Messages") => AllButEvents' = AllButEvents
       /\ Len(inbox') < Len(inbox) => pc \in {"wait_notification", "wait_messages"}
       /\ outstanding' \in {0, 1}
       /\ n_received' > n_received => state = "Ingesting"]_vars

\* C31 witness: a Messages event with operations was dequeued at the wait for
\* a notification and a Notification at the wait for a batch; one fetch
\* request is outstanding and no operation has been processed.
BothKindsDiscarded ==
    /\ {"Notification", "Messages"} \subseteq discarded
    /\ pc = "wait_messages"
    /\ outstanding = 1
    /\ n_fetch = 1
    /\ n_received = 0
    /\ timestamps = << >>

====
